---- MODULE Spec2Model ----
(***************************************************************************)
(* Model of the lighthouse-engine camera core:                             *)
(*   src/src/core/camera.rs  CameraSettingsBuilder, Camera::matrix,        *)
(*                           DefaultCamera (on_key, on_mouse)              *)
(*   src/src/main.rs         the example Camera object and the main loop   *)
(*                                                                         *)
(* Five specifications share the variables:                                *)
(*   SpecBuilder  the settings builder (setters and build)                 *)
(*   SpecKeys     on_key on a DefaultCamera, over lists of keys            *)
(*   SpecCamera   a DefaultCamera driven by on_key/on_mouse/matrix/update  *)
(*   SpecMain     the main loop of main.rs, one step per statement         *)
(*   SpecMainFair SpecMain with every statement of main() returning        *)
(***************************************************************************)
EXTENDS Integers, Sequences, FiniteSets, TLC

VARIABLES
    builder,     \* CameraSettingsBuilder: the seven fields
    lastArgs,    \* history: last argument given to each optional setter
    result,      \* outcome of the last build() on the current builder
    pos,         \* camera position (x, y, z), f32 each
    rot,         \* camera rotation / look direction
    settings,    \* the camera's CameraSettings
    mouse,       \* Mouse: capture mode `state`, raw state `mouse`, cooldowns
    device,      \* DeviceState handle passed to on_mouse
    cursor,      \* OS cursor position in the window (whole pixels)
    uniform,     \* last matrix uploaded to the shader program
    lastOp,      \* history: the operation that ran last, with its inputs
    lockedRun,   \* history: consecutive on_mouse calls that ended Locked
    keyCalls,    \* history: number of on_key calls made
    pc,          \* main loop: position in main()
    frame,       \* main loop: number of frames started
    frameLog,    \* main loop: the steps performed in the current frame
    pyramid_w,   \* main loop: Pyramid.rot.w
    events       \* main loop: the platform's queue of pending events

vars == <<builder, lastArgs, result, pos, rot, settings, mouse, device,
          cursor, uniform, lastOp, lockedRun, keyCalls, pc, frame,
          frameLog, pyramid_w, events>>

builderVars == <<builder, lastArgs, result>>
cameraVars  == <<pos, rot, settings, mouse, device, cursor, uniform, lastOp,
                 lockedRun, keyCalls>>
mainVars    == <<pc, frame, frameLog, pyramid_w, events>>

(***************************************************************************)
(* Option<T>                                                               *)
(***************************************************************************)
None == [some |-> FALSE]

Some(v) == [some |-> TRUE, v |-> v]

(***************************************************************************)
(* Scalars of the settings (fov, sensitivity, near_plane, far_plane) are   *)
(* only stored and copied, never computed with: the integer n stands for   *)
(* the f32 literal n/10.  Screen coordinates are counted in half pixels,   *)
(* so that screen_size / 2.0 of a whole-pixel size is exact as it is in    *)
(* f32.                                                                    *)
(***************************************************************************)
DefaultFov == 450

DefaultSensitivity == 10

DefaultNearPlane == 1

DefaultFarPlane == 1000

\* arguments tried for the optional setters (tenths)
ScalarArgs == {0, 20, 900}

Px(n) == 2 * n

Vec2(x, y) == [x |-> x, y |-> y]

\* arguments tried for screen_size: the window of main.rs, an odd size and a
\* size with a zero and a negative component
ScreenSizes == {Vec2(Px(800), Px(600)), Vec2(Px(801), Px(601)), Vec2(Px(0), Px(-600))}

Windows == {"win"}

ShaderPrograms == {"shader_program"}

Mandatory == {"screen_size", "win", "shader_program"}

Optional == {"fov", "sensitivity", "near_plane", "far_plane"}

(***************************************************************************)
(* CameraSettingsBuilder                                                   *)
(***************************************************************************)
\* new() with a wrong default for the sensitivity
CameraSettingsBuilder_new_WrongDefault ==
    [screen_size |-> None,
     fov |-> 450,
     win |-> None,
     sensitivity |-> 0,
     near_plane |-> 1,
     far_plane |-> 1000,
     shader_program |-> None]

CameraSettingsBuilder_new ==
    [screen_size |-> None,
     fov |-> DefaultFov,
     win |-> None,
     sensitivity |-> DefaultSensitivity,
     near_plane |-> DefaultNearPlane,
     far_plane |-> DefaultFarPlane,
     shader_program |-> None]

NoArgs == [f \in Optional |-> None]

NoResult == [kind |-> "none"]

\* the panic messages of build(), split at white space
MsgScreenSize == <<"Error:", "argument", "screen", "width", "is", "not", "satisfied",
                   "help:", "you", "can", "call", ".screen_width">>

MsgWin == <<"Error:", "argument", "window", "is", "not", "satisfied",
            "help:", "you", "can", "call", ".win">>

MsgShaderProgram == <<"Error:", "argument", "shadeer", "program", "is", "not", "satisfied",
                      "help:", "you", "can", "call", ".shader_program">>

\* Option::expect
Panic(msg) == [kind |-> "panic", msg |-> msg]

\* the literals build() writes into fov, near_plane and far_plane
BuildFov == 450

BuildNearPlane == 1

BuildFarPlane == 1000

\* build() that forgets the expect on win
BuildOf_NoWinCheck(b) ==
    IF ~b.screen_size.some THEN [kind |-> "panic", msg |-> MsgScreenSize]
    ELSE IF ~b.shader_program.some THEN [kind |-> "panic", msg |-> MsgShaderProgram]
    ELSE [kind |-> "ok",
          settings |-> [screen_size |-> b.screen_size.v,
                        fov |-> BuildFov,
                        sensitivity |-> b.sensitivity,
                        win |-> IF b.win.some THEN b.win.v ELSE "null",
                        near_plane |-> BuildNearPlane,
                        far_plane |-> BuildFarPlane,
                        shader_program |-> b.shader_program.v]]

\* build() copying fov, near_plane and far_plane from the builder
BuildOf_Carries(b) ==
    IF ~b.screen_size.some THEN [kind |-> "panic", msg |-> MsgScreenSize]
    ELSE IF ~b.win.some THEN [kind |-> "panic", msg |-> MsgWin]
    ELSE IF ~b.shader_program.some THEN [kind |-> "panic", msg |-> MsgShaderProgram]
    ELSE [kind |-> "ok",
          settings |-> [screen_size |-> b.screen_size.v,
                        fov |-> b.fov,
                        sensitivity |-> b.sensitivity,
                        win |-> b.win.v,
                        near_plane |-> b.near_plane,
                        far_plane |-> b.far_plane,
                        shader_program |-> b.shader_program.v]]

\* build(): the fields of the struct expression are evaluated in the order
\* written, so the first failing expect is the one that panics
BuildOf(b) ==
    IF ~b.screen_size.some THEN Panic(MsgScreenSize)
    ELSE IF ~b.win.some THEN Panic(MsgWin)
    ELSE IF ~b.shader_program.some THEN Panic(MsgShaderProgram)
    ELSE [kind |-> "ok",
          settings |-> [screen_size |-> b.screen_size.v,
                        fov |-> BuildFov,
                        sensitivity |-> b.sensitivity,
                        win |-> b.win.v,
                        near_plane |-> BuildNearPlane,
                        far_plane |-> BuildFarPlane,
                        shader_program |-> b.shader_program.v]]

\* the setters called on the builder so far
Called(b, args) ==
    {f \in Mandatory : b[f].some} \cup {f \in Optional : args[f].some}

Builder_new ==
    /\ builder' = CameraSettingsBuilder_new
    /\ lastArgs' = NoArgs
    /\ result' = NoResult
    /\ builder # CameraSettingsBuilder_new \/ result # NoResult
    /\ UNCHANGED cameraVars /\ UNCHANGED mainVars

Builder_screen_size(v) ==
    /\ builder' = [builder EXCEPT !.screen_size = Some(v)]
    /\ result' = NoResult
    /\ UNCHANGED lastArgs
    /\ UNCHANGED cameraVars /\ UNCHANGED mainVars

Builder_fov(f) ==
    /\ builder' = [builder EXCEPT !.fov = f]
    /\ lastArgs' = [lastArgs EXCEPT !.fov = Some(f)]
    /\ result' = NoResult
    /\ UNCHANGED cameraVars /\ UNCHANGED mainVars

Builder_sensitivity(f) ==
    /\ builder' = [builder EXCEPT !.sensitivity = f]
    /\ lastArgs' = [lastArgs EXCEPT !.sensitivity = Some(f)]
    /\ result' = NoResult
    /\ UNCHANGED cameraVars /\ UNCHANGED mainVars

Builder_win(w) ==
    /\ builder' = [builder EXCEPT !.win = Some(w)]
    /\ result' = NoResult
    /\ UNCHANGED lastArgs
    /\ UNCHANGED cameraVars /\ UNCHANGED mainVars

Builder_near_plane(f) ==
    /\ builder' = [builder EXCEPT !.near_plane = f]
    /\ lastArgs' = [lastArgs EXCEPT !.near_plane = Some(f)]
    /\ result' = NoResult
    /\ UNCHANGED cameraVars /\ UNCHANGED mainVars

Builder_far_plane(f) ==
    /\ builder' = [builder EXCEPT !.far_plane = f]
    /\ lastArgs' = [lastArgs EXCEPT !.far_plane = Some(f)]
    /\ result' = NoResult
    /\ UNCHANGED cameraVars /\ UNCHANGED mainVars

Builder_shader_program(s) ==
    /\ builder' = [builder EXCEPT !.shader_program = Some(s)]
    /\ result' = NoResult
    /\ UNCHANGED lastArgs
    /\ UNCHANGED cameraVars /\ UNCHANGED mainVars

\* build(&self): the builder is left as it is; result records the outcome
\* together with the setters that had been called and their last arguments
Builder_build ==
    /\ result.kind = "none"
    /\ result' = [out |-> BuildOf(builder),
                  kind |-> BuildOf(builder).kind,
                  called |-> Called(builder, lastArgs),
                  args |-> lastArgs]
    /\ UNCHANGED <<builder, lastArgs>>
    /\ UNCHANGED cameraVars /\ UNCHANGED mainVars



(***************************************************************************)
(* f32 arithmetic.  A position coordinate is an f32; the integer v stands  *)
(* for the value v * 2^-30.  The coordinates of the model are the f32      *)
(* values in [-2, 2) that are whole multiples of 2^-30; this set contains  *)
(* 0.01f and is closed under the additions below.  Magnitudes are kept     *)
(* negative so that 2.0 = 2^31 units is in range.                          *)
(***************************************************************************)
\* the f32 literal 0.01 = 10737418 * 2^-30 (bits 0x3C23D70A)
Delta == 10737418

MinCoord == (-2147483647) - 1

\* bound of the model: coordinates stay in [-2.0, MaxCoord * 2^-30]
MaxCoord == 2147483000

TwoTo24 == 16777216

\* a / 2 rounded toward zero, for a <= 0
HalfNeg(a) == (a + 1) \div 2

\* the spacing of the f32 values around a <= 0 (1 where every multiple of
\* 2^-30 is an f32)
RECURSIVE UlpNeg(_)
UlpNeg(a) == IF a > -TwoTo24 THEN 1 ELSE 2 * UlpNeg(HalfNeg(a))

\* round a <= 0 to the nearest f32, ties to the even significand
RoundNeg(a) ==
    LET u == UlpNeg(a)
        q == (a + (u - 1)) \div u
        r == a - q * u
    IN  IF (-2) * r < u THEN q * u
        ELSE IF (-2) * r > u THEN (q - 1) * u
        ELSE IF q % 2 = 0 THEN q * u ELSE (q - 1) * u

F32Round(v) == IF v <= 0 THEN RoundNeg(v) ELSE -RoundNeg(-v)

\* x + y and x - y in f32 (the exact result, rounded once)
F32Add(x, y) == F32Round(x + y)

F32Sub(x, y) == F32Round(x - y)

\* the additions of the model stay inside the coordinate range
CanAdd(x) == x <= MaxCoord - Delta

CanSub(x) == x >= MinCoord + Delta

(***************************************************************************)
(* Vectors                                                                 *)
(***************************************************************************)
Vec3(x, y, z) == [x |-> x, y |-> y, z |-> z]

\* 1.0 in units of 2^-30
One == 1073741824

Vec3Add(a, b) == Vec3(F32Add(a.x, b.x), F32Add(a.y, b.y), F32Add(a.z, b.z))

\* Vec2 / 2.0, on half-pixel counts of whole-pixel sizes
Vec2Half(v) == Vec2(v.x \div 2, v.y \div 2)

\* a conversion rounding to the nearest whole pixel, halves upward
AsI32_Nearest(h) == (h + 1) \div 2

\* `as i32` of a coordinate counted in half pixels: whole pixels, rounded
\* toward zero
AsI32(h) == IF h >= 0 THEN h \div 2 ELSE -((-h) \div 2)

(***************************************************************************)
(* Camera::matrix.  The product proj * view * model is kept as the term    *)
(* it is computed from.                                                    *)
(***************************************************************************)
Identity == "identity"

LookAt(eye, center, up) == [eye |-> eye, center |-> center, up |-> up]

Perspective(aspect, fovy, near, far) ==
    [aspect |-> aspect, fovy |-> fovy, near |-> near, far |-> far]

\* the product taken as view * proj * model
MatrixOf_ViewFirst(p, r, s) ==
    LET model == "identity"
        view  == [eye |-> p, center |-> Vec3Add(p, r), up |-> Vec3(0, One, 0)]
        proj  == [aspect |-> [num |-> s.screen_size.x, den |-> s.screen_size.y],
                  fovy |-> [to_radians |-> s.fov], near |-> s.near_plane,
                  far |-> s.far_plane]
    IN  <<view, proj, model>>

MatrixOf(p, r, s) ==
    LET model == Identity
        view  == LookAt(p, Vec3Add(p, r), Vec3(0, One, 0))
        proj  == Perspective([num |-> s.screen_size.x, den |-> s.screen_size.y],
                             [to_radians |-> s.fov], s.near_plane, s.far_plane)
    IN  <<proj, view, model>>

\* Uniform::new(program, name).set_uniform_matrix(transpose, value)
SetUniformMatrix(program, name, transpose, value) ==
    [program |-> program, name |-> name, transpose |-> transpose, value |-> value]

UniformNames == {"camera_matrix", "view_matrix"}

\* the uniform uploads the body of matrix(uniform) makes, in order
MatrixUploads(p, r, s, name) ==
    <<SetUniformMatrix(s.shader_program, name, FALSE, MatrixOf(p, r, s))>>

(***************************************************************************)
(* DefaultCamera::on_key                                                   *)
(***************************************************************************)
Keycodes == {"W", "A", "S", "D", "LShift", "RShift", "Space", "Q"}

\* the match with the arm of S adding instead of subtracting
KeyArm_SAdds(p, key) ==
    CASE key = "W" -> [p EXCEPT !.z = F32Add(p.z, Delta)]
      [] key = "A" -> [p EXCEPT !.x = F32Add(p.x, Delta)]
      [] key = "S" -> [p EXCEPT !.z = F32Add(p.z, Delta)]
      [] key = "D" -> [p EXCEPT !.x = F32Sub(p.x, Delta)]
      [] key \in {"LShift", "RShift"} -> [p EXCEPT !.y = F32Sub(p.y, Delta)]
      [] key = "Space" -> [p EXCEPT !.y = F32Add(p.y, Delta)]
      [] OTHER -> p

\* the match with an arm for Q that moves the camera down
KeyArm_QMoves(p, key) ==
    CASE key = "W" -> [p EXCEPT !.z = F32Add(p.z, Delta)]
      [] key = "A" -> [p EXCEPT !.x = F32Add(p.x, Delta)]
      [] key = "S" -> [p EXCEPT !.z = F32Sub(p.z, Delta)]
      [] key = "D" -> [p EXCEPT !.x = F32Sub(p.x, Delta)]
      [] key \in {"LShift", "RShift", "Q"} -> [p EXCEPT !.y = F32Sub(p.y, Delta)]
      [] key = "Space" -> [p EXCEPT !.y = F32Add(p.y, Delta)]
      [] OTHER -> p

\* one arm of the match
KeyArm(p, key) ==
    CASE key = "W" -> [p EXCEPT !.z = F32Add(p.z, Delta)]
      [] key = "A" -> [p EXCEPT !.x = F32Add(p.x, Delta)]
      [] key = "S" -> [p EXCEPT !.z = F32Sub(p.z, Delta)]
      [] key = "D" -> [p EXCEPT !.x = F32Sub(p.x, Delta)]
      [] key \in {"LShift", "RShift"} -> [p EXCEPT !.y = F32Sub(p.y, Delta)]
      [] key = "Space" -> [p EXCEPT !.y = F32Add(p.y, Delta)]
      [] OTHER -> p

\* for key in keys { match key { ... } }
RECURSIVE OnKeyOf(_, _)
OnKeyOf(p, keys) ==
    IF keys = <<>> THEN p ELSE OnKeyOf(KeyArm(p, Head(keys)), Tail(keys))

\* the addition a key makes stays inside the coordinate range of the model
KeyInRange(p, key) ==
    CASE key \in {"W"} -> CanAdd(p.z)
      [] key \in {"A"} -> CanAdd(p.x)
      [] key \in {"S"} -> CanSub(p.z)
      [] key \in {"D"} -> CanSub(p.x)
      [] key \in {"LShift", "RShift"} -> CanSub(p.y)
      [] key \in {"Space"} -> CanAdd(p.y)
      [] OTHER -> TRUE

RECURSIVE KeysInRange(_, _)
KeysInRange(p, keys) ==
    IF keys = <<>> THEN TRUE
    ELSE /\ KeyInRange(p, Head(keys))
         /\ KeysInRange(KeyArm(p, Head(keys)), Tail(keys))

\* bounds: keys per call and on_key calls per run
MaxKeys == 2

MaxOnKey == 1

RECURSIVE SeqsUpTo(_, _)
SeqsUpTo(S, n) ==
    IF n = 0 THEN {<<>>}
    ELSE SeqsUpTo(S, n - 1) \cup {Append(q, e) : q \in {t \in SeqsUpTo(S, n - 1) : Len(t) = n - 1}, e \in S}

KeyLists == SeqsUpTo(Keycodes, MaxKeys)

(***************************************************************************)
(* Mouse (core/mouse.rs): capture mode, raw state and the press cooldown   *)
(***************************************************************************)
Buttons == {"LeftMouse", "RightMouse", "MiddleMouse"}

Free == [tag |-> "Free"]

Locked(vec) == [tag |-> "Locked", anchor |-> vec]

\* Duration::from_millis(100), the cooldown on_mouse asks for
Cooldown == 100

\* bound: the time since a button's last emitted press is counted up to here
ElapsedCap == 150

\* bound: consecutive Locked on_mouse calls are counted up to here
MaxRun == 2

\* times between two polls of the device (ms)
Dts == {50, 100}

Min(a, b) == IF a < b THEN a ELSE b

\* time passing: every button's time since its last emitted press grows
Elapse(since, dt) == [b \in Buttons |-> Min(since[b] + dt, ElapsedCap)]

\* get_pressed_cooldown(cooldown): the buttons of the raw state that are
\* pressed and whose last emitted press is at least `cooldown` old
PressedCooldown(m, cooldown) ==
    {b \in m.mouse.buttons : m.since[b] >= cooldown}

\* on_mouse asking for a cooldown of 50 ms
PressedOnMouse_Short(m) == PressedCooldown(m, 50)

\* mouse.get_pressed_cooldown(Duration::from_millis(100)) in on_mouse
PressedOnMouse(m) == PressedCooldown(m, Cooldown)

\* ... and the cooldown of every emitted button starts again
AfterCooldown(m, emitted) ==
    [m EXCEPT !.since = [b \in Buttons |-> IF b \in emitted THEN 0 ELSE m.since[b]]]

\* the orders in which a set of presses can be iterated
Orders(S) ==
    {q \in [1..Cardinality(S) -> S] : \A i, j \in 1..Cardinality(S) : i # j => q[i] # q[j]}

(***************************************************************************)
(* DefaultCamera::on_mouse                                                 *)
(***************************************************************************)
\* the match locking to the screen size instead of its half
PressArm_FullSize(state, pressed, s) ==
    CASE pressed = "LeftMouse" -> [tag |-> "Locked", anchor |-> s.screen_size]
      [] pressed = "RightMouse" -> [tag |-> "Free"]
      [] OTHER -> state

\* the match with every button but the left one releasing the capture
PressArm_OthersFree(state, pressed, s) ==
    CASE pressed = "LeftMouse" -> [tag |-> "Locked", anchor |-> Vec2Half(s.screen_size)]
      [] OTHER -> [tag |-> "Free"]

\* one arm of the match on a debounced press
PressArm(state, pressed, s) ==
    CASE pressed = "LeftMouse" -> Locked(Vec2Half(s.screen_size))
      [] pressed = "RightMouse" -> Free
      [] OTHER -> state

\* the loop left after its first press
PressesOf_FirstOnly(state, presses, s) ==
    IF presses = <<>> THEN state ELSE PressArm(state, Head(presses), s)

RECURSIVE PressesOf(_, _, _)
PressesOf(state, presses, s) ==
    IF presses = <<>> THEN state
    ELSE PressesOf(PressArm(state, Head(presses), s), Tail(presses), s)

\* DeviceState::new(): a handle different from the one it replaces
DeviceStateNew(d) == [id |-> 1 - d.id]

\* device.get_mouse(): the cursor position and the buttons held down
GetMouse(c, held) == [coords |-> c, buttons |-> held]

\* what the second match does in the Locked mode, in order
LockedEffects(vec) ==
    <<[e |-> "warp_mouse_in_window", x |-> AsI32(vec.x), y |-> AsI32(vec.y)],
      [e |-> "DeviceState::new"],
      [e |-> "get_mouse"]>>

\* the second match reading the raw state before it warps the cursor
StateMatch_ReadFirst(state, raw, d, c) ==
    IF state.tag = "Free"
    THEN [raw |-> raw, device |-> d, cursor |-> c, effects |-> <<>>]
    ELSE LET target == Vec2(AsI32(state.anchor.x), AsI32(state.anchor.y))
         IN  [raw     |-> GetMouse(c, raw.buttons),
              device  |-> DeviceStateNew(d),
              cursor  |-> target,
              effects |-> <<[e |-> "DeviceState::new"],
                            [e |-> "get_mouse"],
                            [e |-> "warp_mouse_in_window",
                             x |-> AsI32(state.anchor.x), y |-> AsI32(state.anchor.y)]>>]

\* the second match warping the cursor in the Free mode too
StateMatch_FreeWarps(state, raw, d, c) ==
    LET target == IF state.tag = "Free" THEN Vec2(0, 0)
                  ELSE Vec2(AsI32(state.anchor.x), AsI32(state.anchor.y))
    IN  [raw     |-> GetMouse(target, raw.buttons),
         device  |-> DeviceStateNew(d),
         cursor  |-> target,
         effects |-> <<[e |-> "warp_mouse_in_window", x |-> target.x, y |-> target.y],
                       [e |-> "DeviceState::new"],
                       [e |-> "get_mouse"]>>]

\* match mouse.state { Free => (), Locked(vec) => { warp; new; get_mouse } }:
\* the raw state, the device and the OS cursor after it, and what it did.
\* The raw state read after the warp has the cursor at the warp point and
\* the buttons as they are held.
StateMatch(state, raw, d, c) ==
    IF state.tag = "Free"
    THEN [raw |-> raw, device |-> d, cursor |-> c, effects |-> <<>>]
    ELSE LET target == Vec2(AsI32(state.anchor.x), AsI32(state.anchor.y))
         IN  [raw     |-> GetMouse(target, raw.buttons),
              device  |-> DeviceStateNew(d),
              cursor  |-> target,
              effects |-> LockedEffects(state.anchor)]

\* on_mouse turning the camera by the distance of the cursor from the anchor
OnMouse_Looks(presses) ==
    LET emitted == PressedOnMouse(mouse)
        m1      == AfterCooldown(mouse, emitted)
        state1  == PressesOf(mouse.state, presses, settings)
        after   == StateMatch(state1, mouse.mouse, device, cursor)
    IN  /\ presses \in Orders(emitted)
        /\ mouse' = [m1 EXCEPT !.state = state1, !.mouse = after.raw]
        /\ device' = after.device
        /\ cursor' = after.cursor
        /\ lastOp' = [op |-> "on_mouse", pressed |-> presses, before |-> mouse.state,
                      trace |-> [i \in 1..Len(presses) |->
                                    PressesOf(mouse.state, SubSeq(presses, 1, i), settings)],
                      run |-> lockedRun,
                      elapsed |-> mouse.since, raw |-> mouse.mouse.buttons,
                      entry |-> [raw |-> mouse.mouse, device |-> device, cursor |-> cursor,
                                 pos |-> pos, rot |-> rot, settings |-> settings],
                      effects |-> after.effects]
        /\ lockedRun' = IF state1.tag = "Free" THEN 0 ELSE Min(lockedRun + 1, MaxRun)
        /\ rot' = IF after.cursor = cursor THEN rot ELSE [rot EXCEPT !.x = Delta]
        /\ UNCHANGED <<pos, settings, uniform, keyCalls>>
        /\ UNCHANGED builderVars /\ UNCHANGED mainVars

OnMouse(presses) ==
    LET emitted == PressedOnMouse(mouse)
        m1      == AfterCooldown(mouse, emitted)
        state1  == PressesOf(mouse.state, presses, settings)
        after   == StateMatch(state1, mouse.mouse, device, cursor)
    IN  /\ presses \in Orders(emitted)
        /\ mouse' = [m1 EXCEPT !.state = state1, !.mouse = after.raw]
        /\ device' = after.device
        /\ cursor' = after.cursor
        /\ lastOp' = [op |-> "on_mouse", pressed |-> presses, before |-> mouse.state,
                      trace |-> [i \in 1..Len(presses) |->
                                    PressesOf(mouse.state, SubSeq(presses, 1, i), settings)],
                      run |-> lockedRun,
                      elapsed |-> mouse.since, raw |-> mouse.mouse.buttons,
                      entry |-> [raw |-> mouse.mouse, device |-> device, cursor |-> cursor,
                                 pos |-> pos, rot |-> rot, settings |-> settings],
                      effects |-> after.effects]
        /\ lockedRun' = IF state1.tag = "Free" THEN 0 ELSE Min(lockedRun + 1, MaxRun)
        /\ UNCHANGED <<pos, rot, settings, uniform, keyCalls>>
        /\ UNCHANGED builderVars /\ UNCHANGED mainVars

\* on_mouse, the debounced presses iterated in any order
OnMouseCall == \E presses \in Orders(PressedOnMouse(mouse)) : OnMouse(presses)

\* the caller's refresh before the handlers run (as main.rs does at the top
\* of a frame): time has passed, the user has moved the cursor and changed
\* the buttons, and the raw state is read again
Poll(dt, c, held) ==
    /\ mouse' = [mouse EXCEPT !.mouse = GetMouse(c, held),
                              !.since = Elapse(mouse.since, dt)]
    /\ cursor' = c
    /\ lastOp' = [op |-> "poll"]
    /\ UNCHANGED <<pos, rot, settings, device, uniform, lockedRun, keyCalls>>
    /\ UNCHANGED builderVars /\ UNCHANGED mainVars

(***************************************************************************)
(* DefaultCamera: on_key, matrix and update as operations                  *)
(***************************************************************************)
OnKey(keys) ==
    /\ keyCalls < MaxOnKey
    /\ KeysInRange(pos, keys)
    /\ pos' = OnKeyOf(pos, keys)
    /\ keyCalls' = keyCalls + 1
    /\ lastOp' = [op |-> "on_key", keys |-> keys, before |-> pos,
                  entry |-> [rot |-> rot, settings |-> settings]]
    /\ UNCHANGED <<rot, settings, mouse, device, cursor, uniform, lockedRun>>
    /\ UNCHANGED builderVars /\ UNCHANGED mainVars

Matrix(name) ==
    /\ uniform' = Some(MatrixUploads(pos, rot, settings, name)[1])
    /\ lastOp' = [op |-> "matrix", name |-> name,
                  uploads |-> MatrixUploads(pos, rot, settings, name),
                  entry |-> [pos |-> pos, rot |-> rot, settings |-> settings]]
    /\ UNCHANGED <<pos, rot, settings, mouse, device, cursor, lockedRun, keyCalls>>
    /\ UNCHANGED builderVars /\ UNCHANGED mainVars

\* Object::update of DefaultCamera: an empty body
Update ==
    /\ lastOp' = [op |-> "update"]
    /\ UNCHANGED <<pos, rot, settings, mouse, device, cursor, uniform, lockedRun, keyCalls>>
    /\ UNCHANGED builderVars /\ UNCHANGED mainVars

(***************************************************************************)
(* main.rs: the Camera object, the world's update and the main loop        *)
(***************************************************************************)
\* ControllableKey for Camera: the match of DefaultCamera::on_key over
\* world.env.device.get_keys()
Camera_on_key(p, keys) == OnKeyOf(p, keys)

\* Object::update for Camera: the matrix is uploaded, then the keys are
\* handled
Camera_update(p, r, s, keys) ==
    [uniform |-> Some(SetUniformMatrix(s.shader_program, "camera_matrix", FALSE,
                                       MatrixOf(p, r, s))),
     pos     |-> Camera_on_key(p, keys),
     log     |-> <<"matrix", "on_key">>]

\* Object::update for Pyramid: rot.w += 0.01, then the mesh is rebuilt
Pyramid_update(w) == [w |-> F32Add(w, Delta), log |-> <<"pyramid_update">>]

\* GameObject::update: Camera::update(world, 0); Pyramid::update(world, 0)
\* World::update runs this closure on the world
WorldUpdate(keys) ==
    LET c  == Camera_update(pos, rot, settings, keys)
        py == Pyramid_update(pyramid_w)
    IN  /\ KeysInRange(pos, keys)
        /\ uniform' = c.uniform
        /\ pos' = c.pos
        /\ pyramid_w' = py.w
        /\ frameLog' = frameLog \o c.log \o py.log

\* the loop body drawing before the world is updated
FrameOrder_DrawFirst == <<"refresh", "poll_events", "bind", "draw", "update", "swap">>

\* the statements of the loop body, in the order they are written
FrameOrder == <<"refresh", "poll_events", "bind", "update", "draw", "swap">>

IndexOf(q, e) == CHOOSE i \in 1..Len(q) : q[i] = e

\* the statement after `step`; after the last one the loop starts again
NextStep(step) ==
    LET i == IndexOf(FrameOrder, step)
    IN  IF i = Len(FrameOrder) THEN FrameOrder[1] ELSE FrameOrder[i + 1]

\* bound: frames run
MaxFrames == 3

\* key lists tried for device.get_keys() in the main loop
MainKeyLists == {<<>>, <<"W">>, <<"D", "Space">>}

CursorPts == {Vec2(10, 10), Vec2(500, 300)}

\* line 309: world.update() before the loop
Main_setup(keys) ==
    /\ pc = "setup"
    /\ WorldUpdate(keys)
    /\ pc' = FrameOrder[1]
    /\ UNCHANGED <<rot, settings, mouse, device, cursor, lastOp, lockedRun, keyCalls, frame, events>>
    /\ UNCHANGED builderVars

\* world.env.mouse.mouse = world.env.device.get_mouse()
Main_refresh(c, held) ==
    /\ pc = "refresh"
    /\ frame < MaxFrames
    /\ frame' = frame + 1
    /\ mouse' = [mouse EXCEPT !.mouse = GetMouse(c, held)]
    /\ cursor' = c
    /\ frameLog' = <<"refresh">>
    /\ pc' = NextStep("refresh")
    /\ UNCHANGED <<pos, rot, settings, device, uniform, lastOp, lockedRun, keyCalls, pyramid_w, events>>
    /\ UNCHANGED builderVars

\* events the platform can queue: a quit request, any other event, and one
\* that poll_events reports as an Err
Events == {"Quit", "Other", "Err"}

\* bound: events waiting in the queue
MaxEvents == 2

\* the platform queues an event; this can happen between any two statements
Main_event(e) ==
    /\ pc # "exit"
    /\ Len(events) < MaxEvents
    /\ events' = Append(events, e)
    /\ UNCHANGED <<pc, frame, frameLog, pyramid_w>>
    /\ UNCHANGED cameraVars /\ UNCHANGED builderVars

\* the drain with a break that leaves the inner loop only
Drain_InnerBreak(ev) ==
    LET stops == {i \in 1..Len(ev) : ev[i] \in {"Quit", "Err"}}
    IN  IF stops = {} THEN [quit |-> FALSE, rest |-> <<>>]
        ELSE LET i == CHOOSE k \in stops : \A j \in stops : k <= j
             IN  [quit |-> FALSE, rest |-> SubSeq(ev, i + 1, Len(ev))]

\* while let Some(event) = sdl.poll_events().and_then(Result::ok) { match
\* event { Quit => break 'main_loop, _ => () } }: events are taken from the
\* queue up to the first Quit, which leaves the main loop, or the first Err
\* (and_then(Result::ok) turns it into None), which ends the drain
Drain(ev) ==
    LET stops == {i \in 1..Len(ev) : ev[i] \in {"Quit", "Err"}}
    IN  IF stops = {} THEN [quit |-> FALSE, rest |-> <<>>]
        ELSE LET i == CHOOSE k \in stops : \A j \in stops : k <= j
             IN  [quit |-> ev[i] = "Quit", rest |-> SubSeq(ev, i + 1, Len(ev))]

Main_poll_events ==
    /\ pc = "poll_events"
    /\ frameLog' = Append(frameLog, "poll_events")
    /\ events' = Drain(events).rest
    /\ pc' = IF Drain(events).quit THEN "exit" ELSE NextStep("poll_events")
    /\ UNCHANGED <<frame, pyramid_w>>
    /\ UNCHANGED cameraVars /\ UNCHANGED builderVars

\* texture.bind(GL_TEXTURE_2D)
Main_bind ==
    /\ pc = "bind"
    /\ frameLog' = Append(frameLog, "bind")
    /\ pc' = NextStep("bind")
    /\ UNCHANGED <<frame, pyramid_w, events>>
    /\ UNCHANGED cameraVars /\ UNCHANGED builderVars

\* world.update()
Main_update(keys) ==
    /\ pc = "update"
    /\ WorldUpdate(keys)
    /\ pc' = NextStep("update")
    /\ UNCHANGED <<rot, settings, mouse, device, cursor, lastOp, lockedRun, keyCalls, frame, events>>
    /\ UNCHANGED builderVars

\* glClear, glClear, glDrawElements
Main_draw ==
    /\ pc = "draw"
    /\ frameLog' = Append(frameLog, "draw")
    /\ pc' = NextStep("draw")
    /\ UNCHANGED <<frame, pyramid_w, events>>
    /\ UNCHANGED cameraVars /\ UNCHANGED builderVars

\* world.env.win.swap_window()
Main_swap ==
    /\ pc = "swap"
    /\ frameLog' = Append(frameLog, "swap")
    /\ pc' = NextStep("swap")
    /\ UNCHANGED <<frame, pyramid_w, events>>
    /\ UNCHANGED cameraVars /\ UNCHANGED builderVars

(***************************************************************************)
(* Initial states and specifications                                       *)
(***************************************************************************)
BuilderWith(v, w, sp) ==
    [CameraSettingsBuilder_new EXCEPT !.screen_size = Some(v), !.win = Some(w),
                                     !.shader_program = Some(sp)]

\* the settings a complete builder with the screen size v builds
CameraSettingsOf(v) == BuildOf(BuilderWith(v, "win", "shader_program")).settings

\* Mouse from a DeviceState: Free, nothing pressed, no press emitted yet
MouseFrom(c) ==
    [state |-> Free, mouse |-> GetMouse(c, {}), since |-> [b \in Buttons |-> ElapsedCap]]

BuilderInit ==
    /\ builder = CameraSettingsBuilder_new
    /\ lastArgs = NoArgs
    /\ result = NoResult

\* DefaultCamera::new(p, r, s) and the Mouse and DeviceState beside it
CameraInit(p, r, s) ==
    /\ pos = p
    /\ rot = r
    /\ settings = s
    /\ mouse = MouseFrom(Vec2(10, 10))
    /\ device = [id |-> 0]
    /\ cursor = Vec2(10, 10)
    /\ uniform = None
    /\ lastOp = [op |-> "new"]
    /\ lockedRun = 0
    /\ keyCalls = 0

MainIdle ==
    /\ pc = "none"
    /\ frame = 0
    /\ frameLog = <<>>
    /\ pyramid_w = 0
    /\ events = <<>>

MainSize == Vec2(Px(800), Px(600))

\* ---- the builder ----
InitBuilder ==
    /\ BuilderInit
    /\ CameraInit(Vec3(0, 0, 0), Vec3(0, 0, One), CameraSettingsOf(MainSize))
    /\ MainIdle

NextBuilder ==
    \/ Builder_new
    \/ \E v \in ScreenSizes : Builder_screen_size(v)
    \/ \E f \in ScalarArgs : Builder_fov(f)
    \/ \E f \in ScalarArgs : Builder_sensitivity(f)
    \/ \E w \in Windows : Builder_win(w)
    \/ \E f \in ScalarArgs : Builder_near_plane(f)
    \/ \E f \in ScalarArgs : Builder_far_plane(f)
    \/ \E sp \in ShaderPrograms : Builder_shader_program(sp)
    \/ Builder_build

SpecBuilder == InitBuilder /\ [][NextBuilder]_vars

\* ---- on_key on a DefaultCamera ----
\* coordinates a camera starts at: 0.0 and 0.24000004 (24 times += 0.01
\* from 0.0)
InitCoords == {0, 257698080}

InitKeys ==
    /\ BuilderInit
    /\ \E c \in InitCoords :
           CameraInit(Vec3(c, c, c), Vec3(0, 0, One), CameraSettingsOf(MainSize))
    /\ MainIdle

NextKeys == \E keys \in KeyLists : OnKey(keys)

SpecKeys == InitKeys /\ [][NextKeys]_vars

\* ---- a DefaultCamera with its mouse ----
CameraSizes == {Vec2(Px(800), Px(600)), Vec2(Px(801), Px(601))}

CameraKeyLists == {<<"W">>}

InitCamera ==
    /\ BuilderInit
    /\ \E v \in CameraSizes :
           CameraInit(Vec3(0, 0, 0), Vec3(0, 0, One), CameraSettingsOf(v))
    /\ MainIdle

NextCamera ==
    \/ \E dt \in Dts, held \in SUBSET Buttons : Poll(dt, Vec2(10, 10), held)
    \/ OnMouseCall
    \/ \E keys \in CameraKeyLists : OnKey(keys)
    \/ \E name \in UniformNames : Matrix(name)
    \/ Update

SpecCamera == InitCamera /\ [][NextCamera]_vars

\* ---- the main loop ----
InitMain ==
    /\ BuilderInit
    /\ CameraInit(Vec3(0, 0, MinCoord), Vec3(0, 0, One), CameraSettingsOf(MainSize))
    /\ pc = "setup"
    /\ frame = 0
    /\ frameLog = <<>>
    /\ pyramid_w = 0
    /\ events = <<>>

NextMain ==
    \/ \E keys \in MainKeyLists : Main_setup(keys)
    \/ \E c \in CursorPts, held \in {{}, {"LeftMouse"}} : Main_refresh(c, held)
    \/ Main_poll_events
    \/ Main_bind
    \/ \E keys \in MainKeyLists : Main_update(keys)
    \/ Main_draw
    \/ Main_swap
    \/ \E e \in Events : Main_event(e)

SpecMain == InitMain /\ [][NextMain]_vars

\* the statements of main(): one thread running them one after another, each
\* of them returning; the arrival of events is the platform's and is not
\* forced
MainStep ==
    \/ \E keys \in MainKeyLists : Main_setup(keys)
    \/ \E c \in CursorPts, held \in {{}, {"LeftMouse"}} : Main_refresh(c, held)
    \/ Main_poll_events
    \/ Main_bind
    \/ \E keys \in MainKeyLists : Main_update(keys)
    \/ Main_draw
    \/ Main_swap

SpecMainFair == InitMain /\ [][NextMain]_vars /\ WF_vars(MainStep)

Spec == SpecCamera

(***************************************************************************)
(* Properties of the builder (SpecBuilder)                                 *)
(***************************************************************************)
\* C1: build() panics, returning no settings, exactly when screen_size, win
\* or shader_program was never supplied, and returns a CameraSettings when
\* all three were; the optional setters called play no part in it.
C1_BuildFailsIffMandatoryMissing ==
    result.kind # "none" =>
        /\ (result.kind = "panic") <=> ~(Mandatory \subseteq result.called)
        /\ (result.kind = "ok") <=> (Mandatory \subseteq result.called)
        /\ (result.kind = "ok") <=> ("settings" \in DOMAIN result.out)

\* a build() that panicked although every optional setter and two of the
\* three mandatory ones had been called
C1_Witness ==
    /\ result.kind = "panic"
    /\ result.called = Optional \cup {"screen_size", "win"}

DefaultOf(f) ==
    CASE f = "fov" -> 450
      [] f = "sensitivity" -> 10
      [] f = "near_plane" -> 1
      [] f = "far_plane" -> 1000

\* C2: the settings built carry, in each optional field, the last value given
\* to its setter, and the documented default where the setter was not called.
C2_OptionalSettersCarried ==
    result.kind = "ok" =>
        \A f \in Optional :
            result.out.settings[f] =
                IF result.args[f].some THEN result.args[f].v ELSE DefaultOf(f)

\* C3: with the mandatory fields supplied and no optional setter called,
\* build() returns fov = 45.0, sensitivity = 1.0, near_plane = 0.1 and
\* far_plane = 100.0.
C3_BuilderDefaults ==
    (result.kind = "ok" /\ result.called \cap Optional = {}) =>
        /\ result.out.settings.fov = 450
        /\ result.out.settings.sensitivity = 10
        /\ result.out.settings.near_plane = 1
        /\ result.out.settings.far_plane = 1000

C3_Witness ==
    /\ result.kind = "ok"
    /\ result.called = Mandatory

\* the message names the field: it holds the field's name or the call of its
\* setter
NamesField(msg, f) == \E i \in 1..Len(msg) : msg[i] = f \/ msg[i] = "." \o f

FirstMissing(called) ==
    IF "screen_size" \notin called THEN "screen_size"
    ELSE IF "win" \notin called THEN "win"
    ELSE "shader_program"

\* C4: the panic of build() names the missing field, the first missing one
\* in the order screen_size, win, shader_program.
C4_PanicNamesFirstMissing ==
    result.kind = "panic" => NamesField(result.out.msg, FirstMissing(result.called))

(***************************************************************************)
(* Properties of on_key (SpecKeys)                                         *)
(***************************************************************************)
Abs(v) == IF v < 0 THEN -v ELSE v

\* the axis a key moves along and the direction, as the claim lists them
C5_Axis(key) ==
    CASE key \in {"W", "S"} -> "z"
      [] key \in {"A", "D"} -> "x"
      [] key \in {"LShift", "RShift", "Space"} -> "y"
      [] OTHER -> "none"

C5_Sign(key) == IF key \in {"W", "A", "Space"} THEN 1 ELSE -1

\* the number of keys of the list on axis a, counted with their direction
RECURSIVE C5_Count(_, _)
C5_Count(keys, a) ==
    IF keys = <<>> THEN 0
    ELSE (IF C5_Axis(Head(keys)) = a THEN C5_Sign(Head(keys)) ELSE 0)
         + C5_Count(Tail(keys), a)

\* C5 as claimed: one call to on_key changes each coordinate by exactly the
\* sum of the deltas of 0.01 of the keys on its axis (the new coordinate is
\* the f32 of the old one plus that sum), so that opposite keys pressed
\* together leave their axis unchanged.
C5_ExactSum ==
    lastOp.op = "on_key" =>
        \A a \in {"x", "y", "z"} :
            pos[a] = F32Round(lastOp.before[a] + C5_Count(lastOp.keys, a) * Delta)

\* the deltas of the keys added one after another, each sum rounded to f32
RECURSIVE C5_Accumulate(_, _)
C5_Accumulate(p, keys) ==
    IF keys = <<>> THEN p
    ELSE LET a == C5_Axis(Head(keys))
             q == IF a = "none" THEN p
                  ELSE [p EXCEPT ![a] = F32Round(p[a] + C5_Sign(Head(keys)) * Delta)]
         IN  C5_Accumulate(q, Tail(keys))

C5_Opposite(keys) ==
    /\ Len(keys) = 2
    /\ C5_Axis(keys[1]) # "none"
    /\ C5_Axis(keys[1]) = C5_Axis(keys[2])
    /\ C5_Sign(keys[1]) # C5_Sign(keys[2])

\* C5, amended: one call to on_key adds the deltas of its keys to the
\* position in list order, each addition rounded to f32, with no
\* normalization; W alone is z += 0.01, W and A are z += 0.01 and x += 0.01;
\* an axis no key of the list moves along is unchanged, and two opposite
\* keys leave their axis within one f32 step of its old value, unchanged
\* when the first of the two additions is exact.
C5_F32Sum ==
    lastOp.op = "on_key" =>
        LET b == lastOp.before
            k == lastOp.keys
        IN  /\ pos = C5_Accumulate(b, k)
            /\ k = <<"W">> => pos = [b EXCEPT !.z = F32Round(b.z + Delta)]
            /\ k = <<"W", "A">> =>
                   pos = [b EXCEPT !.z = F32Round(b.z + Delta), !.x = F32Round(b.x + Delta)]
            /\ \A a \in {"x", "y", "z"} :
                   (\A i \in 1..Len(k) : C5_Axis(k[i]) # a) => pos[a] = b[a]
            /\ C5_Opposite(k) =>
                   LET a   == C5_Axis(k[1])
                       mid == b[a] + C5_Sign(k[1]) * Delta
                   IN  /\ Abs(pos[a] - b[a]) <= UlpNeg(-Abs(F32Round(mid)))
                       /\ F32Round(mid) = mid => pos[a] = b[a]

\* W and S pressed together where the first addition rounds: z has moved
C5_Witness ==
    /\ lastOp.op = "on_key"
    /\ lastOp.keys = <<"W", "S">>
    /\ pos.z # lastOp.before.z
    /\ pos.x = lastOp.before.x /\ pos.y = lastOp.before.y

(***************************************************************************)
(* Properties of on_mouse (SpecCamera)                                     *)
(***************************************************************************)
Has(q, e) == \E i \in 1..Len(q) : q[i] = e

\* C6: every debounced press applied by on_mouse sets the mode to
\* Locked(screen_size / 2) if it is LeftMouse, to Free if it is RightMouse,
\* and leaves it as it was for any other button, whatever the mode before;
\* a call whose presses hold RightMouse and not LeftMouse ends in Free, after
\* any number of Locked frames.
C6_PressTransitions ==
    lastOp.op = "on_mouse" =>
        LET n == Len(lastOp.pressed)
            prev(i) == IF i = 1 THEN lastOp.before ELSE lastOp.trace[i - 1]
        IN  /\ \A i \in 1..n :
                   /\ lastOp.pressed[i] = "LeftMouse" =>
                          /\ lastOp.trace[i].tag = "Locked"
                          /\ 2 * lastOp.trace[i].anchor.x = settings.screen_size.x
                          /\ 2 * lastOp.trace[i].anchor.y = settings.screen_size.y
                   /\ lastOp.pressed[i] = "RightMouse" => lastOp.trace[i] = [tag |-> "Free"]
                   /\ lastOp.pressed[i] \notin {"LeftMouse", "RightMouse"} =>
                          lastOp.trace[i] = prev(i)
            /\ mouse.state = IF n = 0 THEN lastOp.before ELSE lastOp.trace[n]
            /\ (Has(lastOp.pressed, "RightMouse") /\ ~Has(lastOp.pressed, "LeftMouse"))
                   => mouse.state = [tag |-> "Free"]

\* a RightMouse press that ended a capture which had lasted MaxRun frames
C6_Witness ==
    /\ lastOp.op = "on_mouse"
    /\ Has(lastOp.pressed, "RightMouse")
    /\ lastOp.before.tag = "Locked"
    /\ lastOp.run = MaxRun
    /\ mouse.state.tag = "Free"

\* C7: the mode goes from Locked to Free only in an on_mouse call whose
\* debounced presses include RightMouse.
C7_LockedUntilRightPress ==
    [][(mouse.state.tag = "Locked" /\ mouse'.state.tag = "Free")
          => (lastOp'.op = "on_mouse" /\ Has(lastOp'.pressed, "RightMouse"))]_vars

\* still Locked after on_mouse calls and an on_key call
C7_Witness ==
    /\ mouse.state.tag = "Locked"
    /\ lockedRun = MaxRun
    /\ lastOp.op = "on_key"
    /\ uniform.some

Before(q, e, f) == \E i, j \in 1..Len(q) : i < j /\ q[i] = e /\ q[j] = f

\* C9: in every frame on_key runs before the matrix is derived and uploaded,
\* so the matrix uploaded is computed from the position that includes the
\* frame's key input.
C9_MatrixAfterKeys ==
    (frame >= 1 /\ Has(frameLog, "matrix")) =>
        /\ Before(frameLog, "on_key", "matrix")
        /\ uniform.some
        /\ uniform.v.value[2].eye = pos

\* the steps of a frame, the three parts of the world's update taken as one
RECURSIVE Coarse(_)
Coarse(q) ==
    IF q = <<>> THEN <<>>
    ELSE LET e == IF Head(q) \in {"matrix", "on_key", "pyramid_update"} THEN "update" ELSE Head(q)
             r == Coarse(Tail(q))
         IN  IF r # <<>> /\ Head(r) = e THEN r ELSE <<e>> \o r

IsPrefix(q, r) == Len(q) <= Len(r) /\ q = SubSeq(r, 1, Len(q))

\* C10 as claimed: refresh, drain of the quit events, update with the matrix
\* upload, texture bind, draw, swap.
C10_ClaimedOrder ==
    frame >= 1 =>
        /\ IsPrefix(Coarse(frameLog),
                    <<"refresh", "poll_events", "update", "bind", "draw", "swap">>)
        /\ Has(frameLog, "draw") => Before(frameLog, "matrix", "draw")
        /\ Has(frameLog, "swap") => Before(frameLog, "draw", "swap")

\* C10, amended: refresh, drain of the quit events, texture bind, update with
\* the matrix upload, draw, swap; the matrix upload of the frame precedes the
\* draw call and the swap follows it.
C10_FrameOrder ==
    frame >= 1 =>
        /\ IsPrefix(Coarse(frameLog),
                    <<"refresh", "poll_events", "bind", "update", "draw", "swap">>)
        /\ Has(frameLog, "draw") => Before(frameLog, "matrix", "draw")
        /\ Has(frameLog, "swap") => Before(frameLog, "draw", "swap")

\* a frame that has run to its swap
C10_Witness ==
    /\ frame >= 1
    /\ Has(frameLog, "draw")
    /\ Has(frameLog, "swap")

(***************************************************************************)
(* Properties of the second match of on_mouse (SpecCamera)                 *)
(***************************************************************************)
Indexes(q, e) == {i \in 1..Len(q) : q[i].e = e}

\* C11: an on_mouse call that ends its press handling in Locked(anchor) has
\* warped the cursor exactly once, to the pixel of the window that holds the
\* anchor, and after the warp has made a new device state and read the
\* mouse's raw state from it, which sees the cursor at the warp point; this
\* happens in the calls with no press as well.
C11_LockedWarpThenReread ==
    (lastOp.op = "on_mouse" /\ mouse.state.tag = "Locked") =>
        LET a  == mouse.state.anchor
            fx == lastOp.effects
        IN  /\ Cardinality(Indexes(fx, "warp_mouse_in_window")) = 1
            /\ Cardinality(Indexes(fx, "DeviceState::new")) = 1
            /\ Cardinality(Indexes(fx, "get_mouse")) = 1
            /\ \A i \in Indexes(fx, "warp_mouse_in_window") :
                   /\ 2 * fx[i].x <= a.x /\ a.x < 2 * fx[i].x + 2
                   /\ 2 * fx[i].y <= a.y /\ a.y < 2 * fx[i].y + 2
                   /\ cursor = Vec2(fx[i].x, fx[i].y)
                   /\ \A j \in Indexes(fx, "DeviceState::new") : i < j
                   /\ \A k \in Indexes(fx, "get_mouse") : i < k
            /\ \A j \in Indexes(fx, "DeviceState::new") :
                   \A k \in Indexes(fx, "get_mouse") : j < k
            /\ device # lastOp.entry.device
            /\ mouse.mouse.coords = cursor
            /\ mouse.mouse.buttons = lastOp.entry.raw.buttons

\* a Locked call with no press, the cursor having been moved away since the
\* call before
C11_Witness ==
    /\ lastOp.op = "on_mouse"
    /\ lastOp.pressed = <<>>
    /\ lastOp.before.tag = "Locked"
    /\ mouse.state.tag = "Locked"
    /\ lastOp.entry.cursor # cursor
    /\ Len(lastOp.effects) = 3

C13_ScreenSizePositive ==
    result.kind = "ok" =>
        /\ result.out.settings.screen_size.x > 0
        /\ result.out.settings.screen_size.y > 0

(***************************************************************************)
(* Termination of the main loop (SpecMainFair)                             *)
(***************************************************************************)
\* the drains still needed to reach the first Quit of the queue: one for
\* every Err in front of it, and its own
DrainsToQuit(ev) ==
    LET quits == {i \in 1..Len(ev) : ev[i] = "Quit"}
        first == CHOOSE k \in quits : \A j \in quits : k <= j
    IN  Cardinality({i \in 1..(first - 1) : ev[i] = "Err"}) + 1

\* a Quit is in the queue and the frames of the model suffice to reach it
QuitArrived ==
    /\ Has(events, "Quit")
    /\ frame + DrainsToQuit(events) <= MaxFrames

\* C14: the main loop is left only by the drain of a frame finding a Quit
\* event, and then at once, with no texture bind, world update, draw or swap
\* in that frame; a frame whose drain finds no Quit goes on to bind, update,
\* draw and swap and then to the next frame; and once a Quit event is in the
\* queue the loop terminates.
C14_QuitTerminates ==
    /\ [](pc = "exit" => frameLog = <<"refresh", "poll_events">>)
    /\ [][(pc # "exit" /\ pc' = "exit") =>
              (pc = "poll_events" /\ Drain(events).quit)]_vars
    /\ [][(pc = "poll_events" /\ pc' # pc) =>
              IF Drain(events).quit THEN pc' = "exit" ELSE pc' = "bind"]_vars
    /\ [][pc = "exit" => pc' = "exit"]_vars
    /\ (pc = "bind") ~>
           (pc = "refresh" /\ Coarse(frameLog) =
                <<"refresh", "poll_events", "bind", "update", "draw", "swap">>)
    /\ QuitArrived ~> (pc = "exit")

\* the loop left by the drain of its second frame or of a later one
C14_Witness ==
    /\ pc = "exit"
    /\ frame >= 2
    /\ frameLog = <<"refresh", "poll_events">>

(***************************************************************************)
(* Frame effects of on_mouse and matrix (SpecCamera)                       *)
(***************************************************************************)
\* C15: on_mouse leaves the camera's position, rotation and settings as they
\* were on entry, for every raw state, mode and set of presses, and the
\* rotation the camera was made with is never changed.
C15_OnMouseKeepsCamera ==
    /\ rot = Vec3(0, 0, One)
    /\ lastOp.op = "on_mouse" =>
           /\ pos = lastOp.entry.pos
           /\ rot = lastOp.entry.rot
           /\ settings = lastOp.entry.settings

\* an on_mouse call that locked the mouse and warped the cursor away from
\* where the user had put it, on a camera the keys had moved
C15_Witness ==
    /\ lastOp.op = "on_mouse"
    /\ Has(lastOp.pressed, "LeftMouse")
    /\ mouse.state.tag = "Locked"
    /\ lastOp.entry.cursor # cursor
    /\ keyCalls >= 1
    /\ pos.z = Delta

\* C16: an on_mouse call whose press handling ends in Free warps nothing and
\* reads nothing: the device state, the mouse's raw state and the cursor are
\* as they were on entry.
C16_FreeNoEffect ==
    (lastOp.op = "on_mouse" /\ mouse.state.tag = "Free") =>
        /\ lastOp.effects = <<>>
        /\ device = lastOp.entry.device
        /\ mouse.mouse = lastOp.entry.raw
        /\ cursor = lastOp.entry.cursor

\* a call that left the capture on a RightMouse press, with the left button
\* held as well
C16_Witness ==
    /\ lastOp.op = "on_mouse"
    /\ lastOp.before.tag = "Locked"
    /\ lastOp.pressed = <<"RightMouse">>
    /\ "LeftMouse" \in lastOp.raw
    /\ mouse.state.tag = "Free"
    /\ device = lastOp.entry.device

\* C17: a call matrix(name) makes one uniform upload, to the uniform `name`
\* of settings.shader_program, not transposed, of the product of the
\* perspective matrix of the settings, the look-at matrix of the position
\* and rotation, and the identity, in this order; the camera's position,
\* rotation and settings are as before the call.
C17_MatrixUpload ==
    lastOp.op = "matrix" =>
        /\ Len(lastOp.uploads) = 1
        /\ uniform = [some |-> TRUE, v |-> lastOp.uploads[1]]
        /\ uniform.v.program = settings.shader_program
        /\ uniform.v.name = lastOp.name
        /\ uniform.v.transpose = FALSE
        /\ uniform.v.value =
               <<[aspect |-> [num |-> settings.screen_size.x, den |-> settings.screen_size.y],
                  fovy |-> [to_radians |-> settings.fov],
                  near |-> settings.near_plane, far |-> settings.far_plane],
                 [eye |-> pos,
                  center |-> [x |-> F32Round(pos.x + rot.x), y |-> F32Round(pos.y + rot.y),
                              z |-> F32Round(pos.z + rot.z)],
                  up |-> [x |-> 0, y |-> One, z |-> 0]],
                 "identity">>
        /\ pos = lastOp.entry.pos
        /\ rot = lastOp.entry.rot
        /\ settings = lastOp.entry.settings

\* matrix("view_matrix") on a camera the keys had moved and whose uniform
\* held an upload already
C17_Witness ==
    /\ lastOp.op = "matrix"
    /\ lastOp.name = "view_matrix"
    /\ pos.z = Delta
    /\ uniform.some
    /\ uniform.v.value[2].eye.z = Delta

IndexOfPress(q, b) == CHOOSE i \in 1..Len(q) : q[i] = b

\* C18: when the presses of one on_mouse call hold both LeftMouse and
\* RightMouse, they are applied one after another in the order iterated and
\* the mode left is that of the later of the two, Locked(screen_size / 2) if
\* it is LeftMouse and Free if it is RightMouse; the call warps the cursor
\* exactly if that mode is Locked.
C18_LastPressWins ==
    (lastOp.op = "on_mouse" /\ Has(lastOp.pressed, "LeftMouse")
                            /\ Has(lastOp.pressed, "RightMouse")) =>
        LET iL == IndexOfPress(lastOp.pressed, "LeftMouse")
            iR == IndexOfPress(lastOp.pressed, "RightMouse")
        IN  /\ iL > iR =>
                   /\ mouse.state.tag = "Locked"
                   /\ 2 * mouse.state.anchor.x = settings.screen_size.x
                   /\ 2 * mouse.state.anchor.y = settings.screen_size.y
                   /\ Cardinality(Indexes(lastOp.effects, "warp_mouse_in_window")) = 1
            /\ iR > iL =>
                   /\ mouse.state = [tag |-> "Free"]
                   /\ lastOp.effects = <<>>
                   /\ cursor = lastOp.entry.cursor
            /\ lastOp.trace[iL].tag = "Locked"
            /\ lastOp.trace[iR].tag = "Free"

\* both buttons emitted in one call, LeftMouse first: the capture the call
\* began in is left and nothing is warped
C18_Witness ==
    /\ lastOp.op = "on_mouse"
    /\ Has(lastOp.pressed, "LeftMouse")
    /\ Has(lastOp.pressed, "RightMouse")
    /\ IndexOfPress(lastOp.pressed, "LeftMouse") < IndexOfPress(lastOp.pressed, "RightMouse")
    /\ lastOp.before.tag = "Locked"
    /\ mouse.state.tag = "Free"

\* C19: from Free, after any on_mouse calls, a mode Locked(a) has a equal to
\* settings.screen_size / 2, and every warp goes to the whole-pixel point
\* got by cutting off the fraction of each component of a: for an odd width
\* or height, half a pixel below the anchor.
C19_AnchorAndWarpPoint ==
    /\ mouse.state.tag = "Locked" =>
           /\ 2 * mouse.state.anchor.x = settings.screen_size.x
           /\ 2 * mouse.state.anchor.y = settings.screen_size.y
    /\ lastOp.op = "on_mouse" =>
           \A i \in Indexes(lastOp.effects, "warp_mouse_in_window") :
               LET a == mouse.state.anchor
                   w == lastOp.effects[i]
               IN  /\ 2 * Abs(w.x) <= Abs(a.x) /\ Abs(a.x) < 2 * Abs(w.x) + 2
                   /\ 2 * Abs(w.y) <= Abs(a.y) /\ Abs(a.y) < 2 * Abs(w.y) + 2
                   /\ w.x * a.x >= 0 /\ w.y * a.y >= 0
                   /\ a.x % 2 = 1 => 2 * w.x + 1 = a.x
                   /\ a.y % 2 = 1 => 2 * w.y + 1 = a.y
                   /\ a.x % 2 = 0 => 2 * w.x = a.x
                   /\ a.y % 2 = 0 => 2 * w.y = a.y

\* a warp on a window of 801 by 601 pixels: the anchor is (400.5, 300.5) and
\* the warp goes to (400, 300)
C19_Witness ==
    /\ lastOp.op = "on_mouse"
    /\ mouse.state.tag = "Locked"
    /\ mouse.state.anchor = [x |-> 801, y |-> 601]
    /\ Len(lastOp.effects) = 3
    /\ lastOp.effects[1].x = 400
    /\ lastOp.effects[1].y = 300
    /\ cursor = [x |-> 400, y |-> 300]

(***************************************************************************)
(* Frame effect of on_key (SpecKeys)                                       *)
(***************************************************************************)
\* the lists with the elements of q in another order
Perms(q) == {[i \in 1..Len(q) |-> q[f[i]]] : f \in Orders(1..Len(q))}

\* the keys of the list that are on axis a, in their order
RECURSIVE OnAxis(_, _)
OnAxis(q, a) ==
    IF q = <<>> THEN <<>>
    ELSE (IF C5_Axis(Head(q)) = a THEN <<Head(q)>> ELSE <<>>) \o OnAxis(Tail(q), a)

\* what the claim and its amendment share: rotation and settings are as
\* before the call, the keys outside W, A, S, D, LShift, RShift and Space
\* can be taken out of the list without changing the result, and the empty
\* list leaves the position
C20_Frame ==
    /\ rot = lastOp.entry.rot
    /\ settings = lastOp.entry.settings
    /\ pos = OnKeyOf(lastOp.before, OnAxis(lastOp.keys, "x") \o OnAxis(lastOp.keys, "y")
                                        \o OnAxis(lastOp.keys, "z"))
    /\ (\A i \in 1..Len(lastOp.keys) : C5_Axis(lastOp.keys[i]) = "none") => pos = lastOp.before
    /\ lastOp.keys = <<>> => pos = lastOp.before

\* C20 as claimed: on_key changes the position only, keys other than the
\* seven do not move the camera, the empty list leaves the position, and
\* the position reached is the same for every order of the keys of the list.
C20_AnyOrder ==
    lastOp.op = "on_key" =>
        /\ C20_Frame
        /\ \A q \in Perms(lastOp.keys) : OnKeyOf(lastOp.before, q) = pos

\* C20, amended: on_key changes the position only, keys other than the seven
\* do not move the camera, the empty list leaves the position, and the
\* position reached is the same for every order of the list that keeps the
\* keys of each axis in their order; reordering keys of one axis changes the
\* coordinate of that axis by one f32 rounding step at most.
C20_OrderAcrossAxes ==
    lastOp.op = "on_key" =>
        /\ C20_Frame
        /\ \A q \in Perms(lastOp.keys) :
               LET p == OnKeyOf(lastOp.before, q)
               IN  /\ (\A a \in {"x", "y", "z"} : OnAxis(q, a) = OnAxis(lastOp.keys, a))
                          => p = pos
                   /\ Len(q) <= 2 =>
                          \A a \in {"x", "y", "z"} :
                              Abs(p[a] - pos[a]) <= UlpNeg(-Abs(pos[a]) - Delta)

\* S and W in one list where the two orders end at different z
C20_Witness ==
    /\ lastOp.op = "on_key"
    /\ lastOp.keys = <<"S", "W">>
    /\ OnKeyOf(lastOp.before, <<"W", "S">>) # pos
    /\ rot = lastOp.entry.rot

====
